---- MODULE Spec2Model ----
(***************************************************************************)
(* A model of wheel::ECS (m1dsolo/ecs): the entity registry, the packed    *)
(* component containers, the double-buffered event maps, the entity-event  *)
(* ("pulse") queue and the system list driven by ECS::update().            *)
(*                                                                         *)
(* update() is modelled as the three phases of its body: UpdateBegin       *)
(* (ecs.cpp 6-11), one UpdateSystem step per iteration of the loop over    *)
(* systems_ (ecs.cpp 13-18) and UpdateEnd (ecs.cpp 20-22).  While an       *)
(* update is running (pc = "systems") only the update itself can step, as  *)
(* the program is single-threaded; the state before an UpdateSystem step   *)
(* is the state the system invoked by that step observes.                  *)
(***************************************************************************)
EXTENDS Integers, Sequences, FiniteSets, TLC

\* ---------------------------------------------------------------- bounds
MaxEntities == 2
MaxEvents   == 2
MaxPulses   == 2
MaxSystems  == 2
MaxTick     == 2
\* Entity is uint32_t; the model keeps the wrap-around of the type at a
\* width of EntityBits bits.
EntityBits  == 3

\* ------------------------------------------------------- program constants
FirstEntity == 1

EntityModulus == 2 ^ EntityBits

\* NullEntity = Entity(-1)
NullEntity == EntityModulus - 1

ResourceIDs == {"GameResource", "OtherResource"}

ComponentIDs == {"NameComponent", "HPComponent", "GetHitEvent"}
EventIDs     == {"DamageEvent", "GetHitEvent"}
SystemIDs    == {"RecoverHPSystem", "EmitSystem", "ReadSystem", "HitSystem"}

\* ------------------------------------------- std::unordered_map as a function
EmptyMap == [k \in {} |-> 0]

Put(m, k, v) == [x \in (DOMAIN m) \cup {k} |-> IF x = k THEN v ELSE m[x]]

Erase(m, k) == [x \in (DOMAIN m) \ {k} |-> m[x]]

PopBack(s) == SubSeq(s, 1, Len(s) - 1)

Back(s) == s[Len(s)]

VARIABLES
    next_entity_,            \* EntityGenerator::next_entity_
    entity_components_,      \* Entity -> set of ComponentID
    cid2containers_,         \* ComponentID -> container
    systems_,                \* execution list
    system_infos_map_,       \* SystemID -> [active]
    current_events_map_,     \* EventID -> events readable now
    next_events_map_,        \* EventID -> events raised since the last update
    current_entity_events_,  \* (entity, cid) pairs to detach
    next_entity_events_,     \* (entity, cid) pairs queued since the last update
    delayed_functions_,      \* deferred attaches
    excluded_component_ids_, \* ComponentIDs given to exclude_components
    resources_,              \* ResourceID -> value
    pc,                      \* "idle" or "systems" (inside update)
    sys_idx,                 \* position of update's loop over systems_
    \* history variables (not program state)
    nupdates,                \* number of update() calls started
    raised_,                 \* EventID -> events raised since the last update started
    prev_raised_,            \* EventID -> events raised in the interval before
    read_since_,             \* EventIDs read by get_events since the last update started
    invoked_,                \* systems invoked by the running/last update, in order
    pulse_log_,              \* entity events queued in this tick and the one before
    expected_hp_,            \* Entity -> hp after one heal per update with the healer Active
    issued_,                 \* handles of the entities created since the last reset, in order
    created_,                \* handles created and not destroyed since
    \* a ComponentContainer<int> used on its own
    store_,                  \* the container
    stored_,                 \* history: Entity -> value written first, for the entities present
    before_reset_            \* history: number of deferred attaches queued before the last reset

vars == <<next_entity_, entity_components_, cid2containers_, systems_,
          system_infos_map_, current_events_map_, next_events_map_,
          current_entity_events_, next_entity_events_, delayed_functions_,
          pc, sys_idx, nupdates, raised_, prev_raised_, read_since_, invoked_,
          pulse_log_, expected_hp_, excluded_component_ids_, resources_,
          issued_, created_, store_, stored_, before_reset_>>

entityVars == <<next_entity_, entity_components_, cid2containers_>>
systemVars == <<systems_, system_infos_map_>>
eventVars  == <<current_events_map_, next_events_map_>>
pulseVars  == <<current_entity_events_, next_entity_events_, delayed_functions_>>
ctlVars    == <<pc, sys_idx>>
eventHist  == <<raised_, prev_raised_, read_since_>>
handleHist == <<issued_, created_>>

\* The handles of the entities created since the last reset.
Issued == {issued_[i] : i \in 1..Len(issued_)}
storeVars  == <<store_, stored_>>
miscVars   == <<excluded_component_ids_, resources_, storeVars>>
otherVars  == <<miscVars, before_reset_>>

\* ------------------------------------------------------------- SparseSet
EmptySparseSet == [dense_ |-> << >>, sparse_ |-> EmptyMap]

\* SparseSet::has
SparseSetHas(s, val) == val \in DOMAIN s.sparse_

\* SparseSet::add: indices are 0-based as in the source.
SparseSetAdd(s, val) ==
    [dense_  |-> Append(s.dense_, val),
     sparse_ |-> Put(s.sparse_, val, Len(s.dense_))]

\* SparseSet::remove
SparseSetRemove(s, val) ==
    IF ~SparseSetHas(s, val) THEN s
    ELSE LET idx  == s.sparse_[val]
             last == Back(s.dense_)
             d1   == IF val # last THEN [s.dense_ EXCEPT ![idx + 1] = last]
                     ELSE s.dense_
             sp1  == IF val # last THEN Put(s.sparse_, last, idx)
                     ELSE s.sparse_
         IN  [dense_ |-> PopBack(d1), sparse_ |-> Erase(sp1, val)]

\* ----------------------------------------------------- ComponentContainer
EmptyContainer == [entities_ |-> EmptySparseSet, components_ |-> << >>]

\* ComponentContainer::has
ContainerHas(c, entity) == SparseSetHas(c.entities_, entity)

\* ComponentContainer::add
ContainerAdd(c, entity, component) ==
    [entities_   |-> SparseSetAdd(c.entities_, entity),
     components_ |-> Append(c.components_, component)]

\* ComponentContainer::remove
ContainerRemove_NoMove(c, entity) ==
    IF ~ContainerHas(c, entity) THEN c
    ELSE [entities_   |-> SparseSetRemove(c.entities_, entity),
          components_ |-> PopBack(c.components_)]

ContainerRemove(c, entity) ==
    IF ~ContainerHas(c, entity) THEN c
    ELSE LET idx == c.entities_.sparse_[entity]
             cs1 == IF idx < Len(c.components_) - 1
                    THEN [c.components_ EXCEPT ![idx + 1] = Back(c.components_)]
                    ELSE c.components_
         IN  [entities_   |-> SparseSetRemove(c.entities_, entity),
              components_ |-> PopBack(cs1)]

\* ComponentContainer::get
ContainerGet(c, entity) == c.components_[c.entities_.sparse_[entity] + 1]

\* ComponentContainer::size
ContainerSize(c) == Len(c.components_)

\* ComponentContainer::copy
ContainerCopy_Fresh(c, src_entity, dst_entity) ==
    IF ~ContainerHas(c, src_entity) THEN c
    ELSE ContainerAdd(c, dst_entity, 0)

ContainerCopy(c, src_entity, dst_entity) ==
    IF ~ContainerHas(c, src_entity) THEN c
    ELSE ContainerAdd(c, dst_entity, ContainerGet(c, src_entity))

\* ------------------------------------------------ registry: pure operators
\* A world w is the pair [ec |-> entity_components_, cc |-> cid2containers_].
World == [ec |-> entity_components_, cc |-> cid2containers_]

\* ECS::has_entity
has_entity_in(w, entity) == entity \in DOMAIN w.ec

has_entity(entity) == has_entity_in(World, entity)

\* ECS::count_entities
count_entities == Cardinality(DOMAIN entity_components_)

\* ECS::has_component(entity)
has_component_in(w, entity, cid) ==
    entity \in DOMAIN w.ec /\ cid \in w.ec[entity]

has_component(entity, cid) == has_component_in(World, entity, cid)

\* ECS::get_component(entity)
get_component_in(w, entity, cid) == ContainerGet(w.cc[cid], entity)

get_component(entity, cid) == get_component_in(World, entity, cid)

\* ECS::add_component (private): operator[] on the registry creates the
\* record of an entity that has none.
add_component_NoTag(w, entity, cid, component) ==
    LET ec1 == IF entity \in DOMAIN w.ec THEN w.ec ELSE Put(w.ec, entity, {})
    IN  IF cid \in ec1[entity] THEN [ec |-> ec1, cc |-> w.cc]
        ELSE LET c0 == IF cid \in DOMAIN w.cc THEN w.cc[cid] ELSE EmptyContainer
             IN  [ec |-> ec1,
                  cc |-> Put(w.cc, cid, ContainerAdd(c0, entity, component))]

add_component_LastWins(w, entity, cid, component) ==
    LET ec1 == IF entity \in DOMAIN w.ec THEN w.ec ELSE Put(w.ec, entity, {})
        c0  == IF cid \in DOMAIN w.cc THEN w.cc[cid] ELSE EmptyContainer
    IN  IF cid \in ec1[entity]
        THEN [ec |-> ec1,
              cc |-> [w.cc EXCEPT ![cid].components_[c0.entities_.sparse_[entity] + 1]
                                      = component]]
        ELSE [ec |-> [ec1 EXCEPT ![entity] = @ \cup {cid}],
              cc |-> Put(w.cc, cid, ContainerAdd(c0, entity, component))]

add_component(w, entity, cid, component) ==
    LET ec1 == IF entity \in DOMAIN w.ec THEN w.ec ELSE Put(w.ec, entity, {})
    IN  IF cid \in ec1[entity] THEN [ec |-> ec1, cc |-> w.cc]
        ELSE LET c0 == IF cid \in DOMAIN w.cc THEN w.cc[cid] ELSE EmptyContainer
             IN  [ec |-> [ec1 EXCEPT ![entity] = @ \cup {cid}],
                  cc |-> Put(w.cc, cid, ContainerAdd(c0, entity, component))]

\* ECS::remove_component_
remove_component__Indexing(w, entity, cid) ==
    IF entity \notin DOMAIN w.ec THEN [ec |-> Put(w.ec, entity, {}), cc |-> w.cc]
    ELSE IF cid \notin w.ec[entity] THEN w
    ELSE [ec |-> [w.ec EXCEPT ![entity] = @ \ {cid}],
          cc |-> IF cid \in DOMAIN w.cc
                 THEN [w.cc EXCEPT ![cid] = ContainerRemove(@, entity)]
                 ELSE w.cc]

remove_component_(w, entity, cid) ==
    IF entity \notin DOMAIN w.ec THEN w
    ELSE IF cid \notin w.ec[entity] THEN w
    ELSE [ec |-> [w.ec EXCEPT ![entity] = @ \ {cid}],
          cc |-> IF cid \in DOMAIN w.cc
                 THEN [w.cc EXCEPT ![cid] = ContainerRemove(@, entity)]
                 ELSE w.cc]

\* The loop of ECS::remove_entity over the entity's components.
RECURSIVE RemoveFromContainers(_, _, _)
RemoveFromContainers(cc, entity, cids) ==
    IF cids = {} THEN cc
    ELSE LET cid == CHOOSE x \in cids : TRUE
         IN  RemoveFromContainers([cc EXCEPT ![cid] = ContainerRemove(@, entity)],
                                  entity, cids \ {cid})


\* ------------------------------------------------------------ entities
\* ECS::add_components: the payloads in the order given.
RECURSIVE add_components(_, _, _)
add_components(w, entity, comps) ==
    IF comps = << >> THEN w
    ELSE add_components(add_component(w, entity, Head(comps)[1], Head(comps)[2]),
                        entity, Tail(comps))

Max(a, b) == IF a >= b THEN a ELSE b

HPOf(comps) ==
    LET hs == {i \in 1..Len(comps) : comps[i][1] = "HPComponent"}
    IN  IF hs = {} THEN 0 ELSE comps[CHOOSE i \in hs : TRUE][2]

\* EntityGenerator::generate: the value returned and the value left behind.
generate == [entity |-> next_entity_, next |-> (next_entity_ + 1) % EntityModulus]

\* ECS::add_entity(Entity, ...), entered with the issuer at next: the issuer
\* is raised to at least entity + 1, the record is created if there is none
\* and the components are added in order.
AddEntity(next, entity, comps) ==
    /\ LET w0 == [ec |-> IF entity \in DOMAIN entity_components_
                         THEN entity_components_
                         ELSE Put(entity_components_, entity, {}),
                  cc |-> cid2containers_]
           w1 == add_components(w0, entity, comps)
       IN  /\ next_entity_' = Max(next, (entity + 1) % EntityModulus)
           /\ entity_components_' = w1.ec
           /\ cid2containers_' = w1.cc
           /\ expected_hp_' = IF comps = << >> THEN expected_hp_
                              ELSE Put(expected_hp_, entity, HPOf(comps))
    /\ issued_' = Append(issued_, entity)
    /\ created_' = created_ \cup {entity}

\* ECS::add_entity(...): the handle comes from the issuer.  At most
\* MaxEntities entities are created between two resets.
add_entity(comps) ==
    /\ pc = "idle"
    /\ UNCHANGED otherVars
    /\ Len(issued_) < MaxEntities
    /\ AddEntity(generate.next, generate.entity, comps)
    /\ UNCHANGED <<systemVars, eventVars, pulseVars, ctlVars, nupdates,
                   eventHist, invoked_, pulse_log_>>

\* ECS::add_entity(Entity, ...) called with a handle of the caller's choice.
add_entity_at(entity, comps) ==
    /\ pc = "idle"
    /\ UNCHANGED otherVars
    /\ Len(issued_) < MaxEntities
    /\ AddEntity(next_entity_, entity, comps)
    /\ UNCHANGED <<systemVars, eventVars, pulseVars, ctlVars, nupdates,
                   eventHist, invoked_, pulse_log_>>

\* ECS::remove_entity
remove_entity_in_KeepRecord(w, entity) ==
    IF ~has_entity_in(w, entity) THEN w
    ELSE [ec |-> w.ec,
          cc |-> RemoveFromContainers(w.cc, entity, w.ec[entity])]

remove_entity_in(w, entity) ==
    IF ~has_entity_in(w, entity) THEN w
    ELSE [ec |-> Erase(w.ec, entity),
          cc |-> RemoveFromContainers(w.cc, entity, w.ec[entity])]

remove_entity(entity) ==
    /\ pc = "idle"
    /\ created_' = created_ \ {entity}
    /\ UNCHANGED <<issued_, otherVars>>
    /\ LET w1 == remove_entity_in(World, entity)
       IN  /\ entity_components_' = w1.ec
           /\ cid2containers_' = w1.cc
    /\ expected_hp_' = Erase(expected_hp_, entity)
    /\ UNCHANGED <<next_entity_, systemVars, eventVars, pulseVars, ctlVars,
                   nupdates, eventHist, invoked_, pulse_log_>>

\* ECS::copy_component_
copy_component_(w, src_entity, dst_entity, cid) ==
    [ec |-> [w.ec EXCEPT ![dst_entity] = @ \cup {cid}],
     cc |-> [w.cc EXCEPT ![cid] = ContainerCopy(@, src_entity, dst_entity)]]

\* The loop of ECS::copy_entity over the components of the source, which
\* are read from the registry as the loop goes.
RECURSIVE CopyComponents(_, _, _, _)
CopyComponents(w, entity, new_entity, cids) ==
    IF cids = {} THEN w
    ELSE LET cid == CHOOSE x \in cids : TRUE
         IN  CopyComponents(copy_component_(w, entity, new_entity, cid),
                            entity, new_entity, cids \ {cid})

\* The value ECS::copy_entity returns.
copy_entity_result(entity) ==
    IF ~has_entity(entity) THEN NullEntity ELSE generate.entity

\* ECS::copy_entity
copy_entity(entity) ==
    /\ pc = "idle"
    /\ UNCHANGED otherVars
    /\ IF ~has_entity(entity)
       THEN UNCHANGED <<entityVars, expected_hp_, handleHist>>
       ELSE /\ Len(issued_) < MaxEntities
            /\ LET new_entity == generate.entity
                   w0 == [ec |-> Put(entity_components_, new_entity, {}),
                          cc |-> cid2containers_]
                   w1 == CopyComponents(w0, entity, new_entity, w0.ec[entity])
               IN  /\ next_entity_' = generate.next
                   /\ entity_components_' = w1.ec
                   /\ cid2containers_' = w1.cc
                   /\ expected_hp_' =
                          IF has_component_in(w1, new_entity, "HPComponent")
                          THEN Put(expected_hp_, new_entity,
                                   get_component_in(w1, new_entity, "HPComponent"))
                          ELSE expected_hp_
                   /\ issued_' = Append(issued_, new_entity)
                   /\ created_' = created_ \cup {new_entity}
    /\ UNCHANGED <<systemVars, eventVars, pulseVars, ctlVars, nupdates,
                   eventHist, invoked_, pulse_log_>>

\* ------------------------------------------------------------ components
\* ECS::add_component(entity, component), the public entry.
AddComponent(entity, cid, component) ==
    /\ pc = "idle"
    /\ UNCHANGED <<handleHist, otherVars>>
    /\ LET w1 == add_component(World, entity, cid, component)
       IN  /\ entity_components_' = w1.ec
           /\ cid2containers_' = w1.cc
    /\ UNCHANGED <<next_entity_, systemVars, eventVars, pulseVars, ctlVars,
                   nupdates, eventHist, invoked_, pulse_log_, expected_hp_>>

\* An assignment through the reference get_component<T>(entity) returns.
WriteComponent(entity, cid, component) ==
    /\ pc = "idle"
    /\ UNCHANGED <<handleHist, otherVars>>
    /\ has_component(entity, cid)
    /\ cid2containers_' =
           [cid2containers_ EXCEPT
               ![cid].components_[cid2containers_[cid].entities_.sparse_[entity] + 1]
                   = component]
    /\ UNCHANGED <<next_entity_, entity_components_, systemVars, eventVars,
                   pulseVars, ctlVars, nupdates, eventHist, invoked_,
                   pulse_log_, expected_hp_>>

\* The removal of one component of one entity by the caller, which is
\* remove_component_ on the component's id.
RemoveComponent(entity, cid) ==
    /\ pc = "idle"
    /\ UNCHANGED <<handleHist, otherVars>>
    /\ LET w1 == remove_component_(World, entity, cid)
       IN  /\ entity_components_' = w1.ec
           /\ cid2containers_' = w1.cc
    /\ UNCHANGED <<next_entity_, systemVars, eventVars, pulseVars, ctlVars,
                   nupdates, eventHist, invoked_, pulse_log_, expected_hp_>>

\* ------------------------------------------- a container used on its own
\* The calls below are made on store_, a ComponentContainer<int> that belongs
\* to no registry.  The container holds at most MaxEntities + 1 slots.
StoreFrame ==
    UNCHANGED <<excluded_component_ids_, resources_, before_reset_,
                handleHist, entityVars, systemVars, eventVars, pulseVars, ctlVars, nupdates,
                eventHist, invoked_, pulse_log_, expected_hp_>>

\* store_.add(entity, component)
store_add(entity, component) ==
    /\ ContainerSize(store_) <= MaxEntities
    /\ store_' = ContainerAdd(store_, entity, component)
    /\ stored_' = IF entity \in DOMAIN stored_ THEN stored_
                  ELSE Put(stored_, entity, component)
    /\ StoreFrame

\* store_.remove(entity)
store_remove(entity) ==
    /\ store_' = ContainerRemove(store_, entity)
    /\ stored_' = Erase(stored_, entity)
    /\ StoreFrame

\* store_.copy(src_entity, dst_entity), called with a dst_entity that the
\* container does not hold.
store_copy(src_entity, dst_entity) ==
    /\ ContainerSize(store_) <= MaxEntities
    /\ ~ContainerHas(store_, dst_entity)
    /\ store_' = ContainerCopy(store_, src_entity, dst_entity)
    /\ stored_' = IF src_entity \in DOMAIN stored_
                  THEN Put(stored_, dst_entity, stored_[src_entity])
                  ELSE stored_
    /\ StoreFrame

\* ECS::exclude_components / ECS::exclude_component
exclude_components(cids) ==
    /\ pc = "idle"
    /\ excluded_component_ids_' = excluded_component_ids_ \cup cids
    /\ UNCHANGED <<resources_, storeVars, before_reset_, handleHist, entityVars, systemVars,
                   eventVars, pulseVars, ctlVars, nupdates, eventHist,
                   invoked_, pulse_log_, expected_hp_>>

\* ECS::get_entities<Ts...>: the keys of the registry, each key once;
\* with no type given every entity, otherwise the entities that hold no
\* excluded component outside Ts and hold every type of Ts.
get_entities_NoFilter(w, excluded, Ts) == DOMAIN w.ec

get_entities(w, excluded, Ts) ==
    IF Ts = {} THEN DOMAIN w.ec
    ELSE LET all_entities ==
                 {entity \in DOMAIN w.ec :
                     ~\E component_id \in w.ec[entity] :
                         component_id \in excluded /\ component_id \notin Ts}
         IN  {entity \in all_entities : Ts \subseteq w.ec[entity]}

\* ECS::get_entity<Ts...>: the first element of the view, whichever the
\* iteration order of the registry puts first, or NullEntity; the
\* operator gives every value the call may return.
get_entity(w, excluded, Ts) ==
    IF get_entities(w, excluded, Ts) = {} THEN {NullEntity}
    ELSE get_entities(w, excluded, Ts)

\* ------------------------------------------------------------ resources
\* add_resource: the value is stored only if the slot of the type is empty.
add_resource_Overwrite(m, R, v) == Put(m, R, v)

add_resource_to(m, R, v) == IF R \in DOMAIN m THEN m ELSE Put(m, R, v)

add_resource(R, v) ==
    /\ pc = "idle"
    /\ resources_' = add_resource_to(resources_, R, v)
    /\ UNCHANGED <<excluded_component_ids_, storeVars, before_reset_,
                   handleHist, entityVars, systemVars, eventVars, pulseVars, ctlVars, nupdates,
                   eventHist, invoked_, pulse_log_, expected_hp_>>

\* remove_resource
remove_resource(R) ==
    /\ pc = "idle"
    /\ resources_' = Erase(resources_, R)
    /\ UNCHANGED <<excluded_component_ids_, storeVars, before_reset_,
                   handleHist, entityVars, systemVars, eventVars, pulseVars, ctlVars, nupdates,
                   eventHist, invoked_, pulse_log_, expected_hp_>>

\* has_resource
has_resource(R) == R \in DOMAIN resources_

\* get_resource
get_resource(R) == resources_[R]

\* -------------------------------------------------------------- events
ZeroCount == [t \in EventIDs |-> 0]

\* The payload of the next event of type T: the tick of the raise and the
\* serial number of the raise within the tick, so that every raise is told
\* from every other.
Stamp(T) == [tick |-> nupdates, n |-> raised_[T] + 1]

\* ECS::add_event / ECS::emplace_event, on the "next" map.
add_event_to(m, T, event) ==
    Put(m, T, Append(IF T \in DOMAIN m THEN m[T] ELSE << >>, event))

PendingLen(T) ==
    IF T \in DOMAIN next_events_map_ THEN Len(next_events_map_[T]) ELSE 0

\* The state change of add_event, shared by a caller and by a system.
RaiseEvent(T) ==
    /\ next_events_map_' = add_event_to(next_events_map_, T, Stamp(T))
    /\ raised_' = [raised_ EXCEPT ![T] = @ + 1]
    /\ UNCHANGED <<current_events_map_, prev_raised_, read_since_>>

add_event(T) ==
    /\ pc = "idle"
    /\ UNCHANGED <<handleHist, otherVars>>
    /\ PendingLen(T) < MaxEvents
    /\ RaiseEvent(T)
    /\ UNCHANGED <<entityVars, systemVars, pulseVars, ctlVars, nupdates,
                   invoked_, pulse_log_, expected_hp_>>

\* ECS::has_event
has_event_OfNext(T) == T \in DOMAIN next_events_map_

has_event(T) == T \in DOMAIN current_events_map_

\* ECS::get_events: operator[] on the current map, which inserts an empty
\* vector for a type that has no entry.
get_events_map(m, T) == IF T \in DOMAIN m THEN m ELSE Put(m, T, << >>)

\* The range get_events<T>() returns.
get_events_range(T) == get_events_map(current_events_map_, T)[T]

ReadEvents(T) ==
    /\ current_events_map_' = get_events_map(current_events_map_, T)
    /\ read_since_' = read_since_ \cup {T}
    /\ UNCHANGED <<next_events_map_, raised_, prev_raised_>>

get_events(T) ==
    /\ pc = "idle"
    /\ UNCHANGED <<handleHist, otherVars>>
    /\ ReadEvents(T)
    /\ UNCHANGED <<entityVars, systemVars, pulseVars, ctlVars, nupdates,
                   invoked_, pulse_log_, expected_hp_>>

\* ECS::clear_events: every event, visible or pending, is discarded.
ClearEvents ==
    /\ current_events_map_' = EmptyMap
    /\ next_events_map_' = EmptyMap
    /\ raised_' = ZeroCount
    /\ prev_raised_' = ZeroCount
    /\ read_since_' = {}

clear_events ==
    /\ pc = "idle"
    /\ UNCHANGED <<handleHist, otherVars>>
    /\ ClearEvents
    /\ UNCHANGED <<entityVars, systemVars, pulseVars, ctlVars, nupdates,
                   invoked_, pulse_log_, expected_hp_>>


\* ------------------------------------------------------- entity events
\* add_entity_event: the (entity, cid) pair goes to the next list and the
\* attach is deferred to the next update.
QueueEntityEvent(entity, cid, component) ==
    /\ next_entity_events_' = Append(next_entity_events_, <<entity, cid>>)
    /\ delayed_functions_' =
           Append(delayed_functions_,
                  [entity |-> entity, cid |-> cid, component |-> component])
    /\ pulse_log_' = Append(pulse_log_,
                            [entity |-> entity, cid |-> cid,
                             component |-> component, tick |-> nupdates,
                             lacked |-> ~has_component(entity, cid)])
    /\ UNCHANGED current_entity_events_

add_entity_event(entity, cid, component) ==
    /\ pc = "idle"
    /\ UNCHANGED <<handleHist, otherVars>>
    /\ Len(next_entity_events_) < MaxPulses
    /\ Len(delayed_functions_) < MaxPulses
    /\ QueueEntityEvent(entity, cid, component)
    /\ UNCHANGED <<entityVars, systemVars, eventVars, ctlVars, nupdates,
                   eventHist, invoked_, expected_hp_>>

\* The deferred attach: an ordinary add_component, skipped when the entity
\* no longer exists.
DelayedAttach(w, f) ==
    IF has_entity_in(w, f.entity)
    THEN add_component(w, f.entity, f.cid, f.component)
    ELSE w

\* ECS::update, the loop over delayed_functions_.
RECURSIVE RunDelayed(_, _)
RunDelayed(w, fs) ==
    IF fs = << >> THEN w
    ELSE RunDelayed(DelayedAttach(w, Head(fs)), Tail(fs))

\* ECS::update, the loop over current_entity_events_.
DetachAll_Nothing(w, evs) == w

RECURSIVE DetachAll(_, _)
DetachAll(w, evs) ==
    IF evs = << >> THEN w
    ELSE DetachAll(remove_component_(w, Head(evs)[1], Head(evs)[2]), Tail(evs))

\* ------------------------------------------------------------- systems
Occurs(seq, x) == \E i \in 1..Len(seq) : seq[i] = x

\* std::remove + erase: every occurrence goes, the rest keeps its order.
RemoveAll(seq, x) == SelectSeq(seq, LAMBDA y : y # x)

\* unordered_map::emplace: no effect on a key that is present.
Emplace(m, k, v) == IF k \in DOMAIN m THEN m ELSE Put(m, k, v)

\* ECS::add_system
add_system(s) ==
    /\ pc = "idle"
    /\ UNCHANGED <<handleHist, otherVars>>
    /\ Len(systems_) < MaxSystems
    /\ system_infos_map_' = Emplace(system_infos_map_, s, [active |-> TRUE])
    /\ systems_' = Append(systems_, s)
    /\ UNCHANGED <<entityVars, eventVars, pulseVars, ctlVars, nupdates,
                   eventHist, invoked_, pulse_log_, expected_hp_>>

\* ECS::del_system (remove_system in the tests)
del_system(s) ==
    /\ pc = "idle"
    /\ UNCHANGED <<handleHist, otherVars>>
    /\ IF s \in DOMAIN system_infos_map_
       THEN /\ system_infos_map_' = Erase(system_infos_map_, s)
            /\ systems_' = RemoveAll(systems_, s)
       ELSE UNCHANGED systemVars
    /\ UNCHANGED <<entityVars, eventVars, pulseVars, ctlVars, nupdates,
                   eventHist, invoked_, pulse_log_, expected_hp_>>

\* ECS::pause_system / ECS::resume_system
SetActive(m, s, flag) ==
    IF s \in DOMAIN m THEN [m EXCEPT ![s] = [active |-> flag]] ELSE m

pause_system(s) ==
    /\ pc = "idle"
    /\ UNCHANGED <<handleHist, otherVars>>
    /\ system_infos_map_' = SetActive(system_infos_map_, s, FALSE)
    /\ UNCHANGED <<systems_, entityVars, eventVars, pulseVars, ctlVars, nupdates,
                   eventHist, invoked_, pulse_log_, expected_hp_>>

resume_system(s) ==
    /\ pc = "idle"
    /\ UNCHANGED <<handleHist, otherVars>>
    /\ system_infos_map_' = SetActive(system_infos_map_, s, TRUE)
    /\ UNCHANGED <<systems_, entityVars, eventVars, pulseVars, ctlVars, nupdates,
                   eventHist, invoked_, pulse_log_, expected_hp_>>

\* ECS::clear_systems: the execution list is emptied; the records stay.
ClearSystems ==
    /\ systems_' = << >>
    /\ UNCHANGED system_infos_map_

clear_systems ==
    /\ pc = "idle"
    /\ UNCHANGED <<handleHist, otherVars>>
    /\ ClearSystems
    /\ UNCHANGED <<entityVars, eventVars, pulseVars, ctlVars, nupdates,
                   eventHist, invoked_, pulse_log_, expected_hp_>>

\* EntityGenerator::clear: the issuer starts again.
EntityGeneratorClear == FirstEntity

\* ECS::clear_entities
ClearEntities ==
    /\ entity_components_' = EmptyMap
    /\ cid2containers_' = EmptyMap
    /\ next_entity_' = EntityGeneratorClear
    /\ expected_hp_' = EmptyMap
    /\ issued_' = << >>
    /\ created_' = {}

clear_entities ==
    /\ pc = "idle"
    /\ ClearEntities
    /\ before_reset_' = Len(delayed_functions_)
    /\ UNCHANGED <<miscVars, systemVars, eventVars, pulseVars, ctlVars,
                   nupdates, eventHist, invoked_, pulse_log_>>

\* ECS::clear_entity_events: the two lists of pairs; delayed_functions_ stays.
ClearEntityEvents ==
    /\ current_entity_events_' = << >>
    /\ next_entity_events_' = << >>
    /\ UNCHANGED delayed_functions_

\* ECS::clear
clear ==
    /\ pc = "idle"
    /\ before_reset_' = Len(delayed_functions_)
    /\ UNCHANGED miscVars
    /\ ClearSystems
    /\ ClearEntities
    /\ ClearEvents
    /\ ClearEntityEvents
    /\ UNCHANGED <<ctlVars, nupdates, invoked_, pulse_log_>>


\* ------------------------------------------------- the system callables
\* The damage of the next GetHitEvent queued: 10, 20, ... by position in the
\* queue, so that the pulses queued in one tick carry different values.
HitValue == 10 * (Len(next_entity_events_) + 1)

\* RecoverHPSystem::operator(): hp++ for every entity holding a name and hit points.
HealWorld(w) ==
    LET es == {e \in DOMAIN w.ec : {"NameComponent", "HPComponent"} \subseteq w.ec[e]}
    IN  IF es = {} THEN w
        ELSE LET c == w.cc["HPComponent"]
                 healed == [i \in 1..Len(c.components_) |->
                               IF \E e \in es : c.entities_.sparse_[e] + 1 = i
                               THEN c.components_[i] + 1
                               ELSE c.components_[i]]
             IN  [ec |-> w.ec,
                  cc |-> [w.cc EXCEPT !["HPComponent"] =
                             [entities_ |-> c.entities_, components_ |-> healed]]]

RecoverHPSystem ==
    /\ LET w1 == HealWorld(World)
       IN  /\ entity_components_' = w1.ec
           /\ cid2containers_' = w1.cc
    /\ UNCHANGED <<next_entity_, eventVars, pulseVars, eventHist, pulse_log_>>

\* A system that raises one DamageEvent per invocation.
EmitSystem ==
    /\ IF PendingLen("DamageEvent") < MaxEvents
       THEN RaiseEvent("DamageEvent")
       ELSE UNCHANGED <<eventVars, eventHist>>
    /\ UNCHANGED <<entityVars, pulseVars, pulse_log_>>

\* A system that iterates get_events<DamageEvent>().
ReadSystem ==
    /\ ReadEvents("DamageEvent")
    /\ UNCHANGED <<entityVars, pulseVars, pulse_log_>>

\* A system that queues a GetHitEvent for the first live entity.
HitSystem ==
    /\ IF DOMAIN entity_components_ # {} /\ Len(next_entity_events_) < MaxPulses
       THEN QueueEntityEvent(CHOOSE e \in DOMAIN entity_components_ :
                                 \A o \in DOMAIN entity_components_ : e <= o,
                             "GetHitEvent", HitValue)
       ELSE UNCHANGED <<pulseVars, pulse_log_>>
    /\ UNCHANGED <<entityVars, eventVars, eventHist>>

\* SystemInfo::func of the system registered under id s.
func(s) ==
    CASE s = "RecoverHPSystem" -> RecoverHPSystem
      [] s = "EmitSystem"      -> EmitSystem
      [] s = "ReadSystem"      -> ReadSystem
      [] s = "HitSystem"       -> HitSystem

\* -------------------------------------------------------------- update
\* The state of a container that std::move has emptied into another.  The
\* standard leaves it valid but unspecified; libstdc++, libc++ and the MSVC
\* library all leave it empty.
MovedFromMap_Copied(m) == m

MovedFromMap(m) == EmptyMap

MovedFromVector(v) == << >>

HealerActive ==
    /\ Occurs(systems_, "RecoverHPSystem")
    /\ system_infos_map_["RecoverHPSystem"].active

\* ECS::update, up to the loop over the systems.
UpdateBegin ==
    /\ pc = "idle"
    /\ before_reset_' = 0
    /\ UNCHANGED <<handleHist, miscVars>>
    /\ nupdates < MaxTick
    /\ current_events_map_' = next_events_map_
    /\ next_events_map_' = MovedFromMap(next_events_map_)
    /\ current_entity_events_' = next_entity_events_
    /\ next_entity_events_' = MovedFromVector(next_entity_events_)
    /\ LET w1 == RunDelayed(World, delayed_functions_)
       IN  /\ entity_components_' = w1.ec
           /\ cid2containers_' = w1.cc
    /\ delayed_functions_' = << >>
    /\ pc' = "systems"
    /\ sys_idx' = 1
    /\ nupdates' = nupdates + 1
    /\ prev_raised_' = raised_
    /\ raised_' = ZeroCount
    /\ read_since_' = {}
    /\ invoked_' = << >>
    /\ UNCHANGED pulse_log_
    /\ expected_hp_' = [e \in DOMAIN expected_hp_ |->
                           expected_hp_[e] + (IF HealerActive THEN 1 ELSE 0)]
    /\ UNCHANGED <<next_entity_, systemVars>>

\* ECS::update, one iteration of the loop over systems_.
UpdateSystem ==
    /\ pc = "systems"
    /\ UNCHANGED <<handleHist, otherVars>>
    /\ sys_idx <= Len(systems_)
    /\ LET system == systems_[sys_idx]
           info   == system_infos_map_[system]
       IN  IF info.active
           THEN /\ func(system)
                /\ invoked_' = Append(invoked_, system)
           ELSE UNCHANGED <<entityVars, eventVars, pulseVars, eventHist,
                            pulse_log_, invoked_>>
    /\ sys_idx' = sys_idx + 1
    /\ UNCHANGED <<systemVars, pc, nupdates, expected_hp_>>

\* ECS::update, after the loop: the pairs of current_entity_events_ are detached.
UpdateEnd ==
    /\ pc = "systems"
    /\ UNCHANGED <<handleHist, otherVars>>
    /\ sys_idx > Len(systems_)
    /\ LET w1 == DetachAll(World, current_entity_events_)
       IN  /\ entity_components_' = w1.ec
           /\ cid2containers_' = w1.cc
    /\ pc' = "idle"
    /\ pulse_log_' = SelectSeq(pulse_log_, LAMBDA p : p.tick = nupdates)
    /\ UNCHANGED <<next_entity_, systemVars, eventVars, pulseVars, sys_idx,
                   nupdates, eventHist, invoked_, expected_hp_>>

\* ------------------------------------------------------ specifications
Init ==
    /\ next_entity_ = FirstEntity
    /\ entity_components_ = EmptyMap
    /\ cid2containers_ = EmptyMap
    /\ systems_ = << >>
    /\ system_infos_map_ = EmptyMap
    /\ current_events_map_ = EmptyMap
    /\ next_events_map_ = EmptyMap
    /\ current_entity_events_ = << >>
    /\ next_entity_events_ = << >>
    /\ delayed_functions_ = << >>
    /\ pc = "idle"
    /\ sys_idx = 1
    /\ nupdates = 0
    /\ raised_ = ZeroCount
    /\ prev_raised_ = ZeroCount
    /\ read_since_ = {}
    /\ invoked_ = << >>
    /\ pulse_log_ = << >>
    /\ expected_hp_ = EmptyMap
    /\ excluded_component_ids_ = {}
    /\ resources_ = EmptyMap
    /\ issued_ = << >>
    /\ created_ = {}
    /\ store_ = EmptyContainer
    /\ stored_ = EmptyMap
    /\ before_reset_ = 0

Update == UpdateBegin \/ UpdateSystem \/ UpdateEnd

\* Events: raising, reading and clearing, with systems that raise and read.
NextEvent ==
    \/ \E T \in EventIDs : add_event(T)
    \/ \E T \in EventIDs : get_events(T)
    \/ clear_events
    \/ \E s \in {"EmitSystem", "ReadSystem"} : add_system(s)
    \/ Update

SpecEvent == Init /\ [][NextEvent]_vars

\* Entity events: entities come and go, pulses are queued by the caller and
\* by a system; each system is registered at most once.
NextPulse ==
    \/ add_entity(<< <<"NameComponent", "name">>, <<"HPComponent", 100>> >>)
    \/ \E e \in DOMAIN entity_components_ : remove_entity(e)
    \/ \E e \in DOMAIN entity_components_ :
           add_entity_event(e, "GetHitEvent", HitValue)
    \/ \E s \in {"HitSystem", "RecoverHPSystem"} : ~Occurs(systems_, s) /\ add_system(s)
    \/ Update

SpecPulse == Init /\ [][NextPulse]_vars

\* The scheduler: registration, pause/resume, removal and the resets.
NextSched ==
    \/ add_entity(<< <<"NameComponent", "name">>, <<"HPComponent", 100 * next_entity_>> >>)
    \/ \E s \in {"RecoverHPSystem", "ReadSystem"} : add_system(s)
    \/ \E s \in {"RecoverHPSystem", "ReadSystem"} : del_system(s)
    \/ \E s \in {"RecoverHPSystem", "ReadSystem"} : pause_system(s)
    \/ \E s \in {"RecoverHPSystem", "ReadSystem"} : resume_system(s)
    \/ clear_systems
    \/ clear
    \/ Update

SpecSched == Init /\ [][NextSched]_vars

\* Components: entities are created, copied and destroyed, components are
\* added to live entities, overwritten and removed.
\* The first pack gives two payloads of one type.
Values == {10, 20}

Packs == { << <<"HPComponent", 10>>, <<"HPComponent", 20>> >>,
           << <<"NameComponent", 20>>, <<"HPComponent", 10>> >> }

NextComp ==
    \/ \E comps \in Packs : add_entity(comps)
    \/ \E e \in Issued : remove_entity(e)
    \/ \E e \in Issued : copy_entity(e)
    \/ \E e \in DOMAIN entity_components_ : AddComponent(e, "NameComponent", 20)
    \/ \E e \in DOMAIN entity_components_ : \E v \in Values :
           AddComponent(e, "HPComponent", v)
    \/ \E e \in DOMAIN entity_components_ : \E v \in Values :
           WriteComponent(e, "HPComponent", v)
    \/ \E e \in Issued : \E cid \in {"NameComponent", "HPComponent"} :
           RemoveComponent(e, cid)

SpecComp == Init /\ [][NextComp]_vars

\* Queries: entities are created and destroyed, components are removed and
\* types are excluded from the queries.
QueryTypes == {"NameComponent", "HPComponent"}

NextQuery ==
    \/ \E comps \in Packs : add_entity(comps)
    \/ \E e \in Issued : remove_entity(e)
    \/ \E e \in DOMAIN entity_components_ : \E cid \in QueryTypes :
           RemoveComponent(e, cid)
    \/ \E cid \in QueryTypes : exclude_components({cid})

SpecQuery == Init /\ [][NextQuery]_vars

\* Resources: values are stored and removed while entities come and go.
ResourceValues == {4, 8}

NextResource ==
    \/ \E R \in ResourceIDs : \E v \in ResourceValues : add_resource(R, v)
    \/ \E R \in ResourceIDs : remove_resource(R)
    \/ \E comps \in Packs : add_entity(comps)
    \/ \E e \in Issued : remove_entity(e)

SpecResource == Init /\ [][NextResource]_vars

\* Absent targets: entities and components are removed under any handle,
\* alive or not; systems are registered, paused, resumed and removed,
\* registered or not.
AbsentSystems == {"RecoverHPSystem", "ReadSystem"}

NextAbsent ==
    \/ \E comps \in Packs : add_entity(comps)
    \/ \E e \in Issued \cup {next_entity_} : remove_entity(e)
    \/ \E e \in Issued \cup {next_entity_} : \E cid \in QueryTypes :
           RemoveComponent(e, cid)
    \/ \E s \in AbsentSystems : add_system(s)
    \/ \E s \in AbsentSystems : del_system(s)
    \/ \E s \in AbsentSystems : pause_system(s)
    \/ \E s \in AbsentSystems : resume_system(s)
    \/ clear_systems

SpecAbsent == Init /\ [][NextAbsent]_vars

\* Handles: entities are created with issued handles and with handles of
\* the caller's choice, at the bottom and at the top of the range of
\* Entity, copied, stripped of a component and destroyed; clear_entities()
\* resets the registry.
ChosenHandles == {FirstEntity + 1, NullEntity - 1, NullEntity}

NextHandle ==
    \/ \E comps \in Packs : add_entity(comps)
    \/ \E e \in ChosenHandles : add_entity_at(e, << <<"NameComponent", 20>> >>)
    \/ \E e \in Issued : copy_entity(e)
    \/ \E e \in Issued : remove_entity(e)
    \/ \E e \in Issued : RemoveComponent(e, "HPComponent")
    \/ clear_entities

SpecHandle == Init /\ [][NextHandle]_vars

\* The registry: entities are created, copied and destroyed; components are
\* added and removed under any handle issued or about to be issued, alive
\* or not; pulses are queued and realized by update(), which runs with no
\* system registered.
NextRegistry ==
    \/ add_entity(<< <<"HPComponent", 10>> >>)
    \/ \E e \in Issued : copy_entity(e)
    \/ \E e \in Issued : remove_entity(e)
    \/ \E e \in Issued \cup {next_entity_} : AddComponent(e, "HPComponent", 20)
    \/ \E e \in Issued \cup {next_entity_} : RemoveComponent(e, "HPComponent")
    \/ \E e \in DOMAIN entity_components_ :
           add_entity_event(e, "GetHitEvent", HitValue)
    \/ UpdateBegin
    \/ UpdateEnd

SpecRegistry == Init /\ [][NextRegistry]_vars

\* The container on its own: values are added for entities present or not,
\* removed and copied.
StoreEntities == FirstEntity..MaxEntities

NextStore ==
    \/ \E e \in StoreEntities : \E v \in Values : store_add(e, v)
    \/ \E e \in StoreEntities : store_remove(e)
    \/ \E e, d \in StoreEntities : store_copy(e, d)

SpecStore == Init /\ [][NextStore]_vars

\* Resets: entities are created and pulses queued for them, the registry or
\* the whole world is reset, and update() runs with no system registered.
NextReset ==
    \/ add_entity(<< <<"HPComponent", 10>> >>)
    \/ \E e \in DOMAIN entity_components_ :
           add_entity_event(e, "GetHitEvent", HitValue)
    \/ clear_entities
    \/ clear
    \/ UpdateBegin
    \/ UpdateEnd

SpecReset == Init /\ [][NextReset]_vars

\* Pulses over components of the caller: an entity is given a GetHitEvent
\* with add_component, pulses of the same type are queued for it, and
\* update() runs with no system registered.  The component of the caller
\* carries OwnValue, which no pulse carries.
OwnValue == 5

NextOverlap ==
    \/ add_entity(<< <<"HPComponent", 10>> >>)
    \/ \E e \in DOMAIN entity_components_ :
           AddComponent(e, "GetHitEvent", OwnValue)
    \/ \E e \in DOMAIN entity_components_ :
           add_entity_event(e, "GetHitEvent", HitValue)
    \/ UpdateBegin
    \/ UpdateEnd

SpecOverlap == Init /\ [][NextOverlap]_vars


\* ================================================================ claims
\* ---------------------------------------------------------------- events

\* C1: an event raised in tick k (after update k started, before update k+1
\* starts; its stamp carries tick = k) is returned by get_events<T>() only
\* while nupdates = k + 1, that is to every system of update k+1 and to a
\* caller until update k+2 starts, and then once per raise, in the order
\* raised: in every state, mid-update ones included, the range of
\* get_events<T>() is exactly the raises of the tick before.  (Events
\* discarded by clear_events() are counted as never raised.)
C1_EventsVisibleOneTickLater ==
    \A T \in EventIDs :
        LET evs == get_events_range(T)
        IN  /\ Len(evs) = prev_raised_[T]
            /\ \A i \in 1..Len(evs) : evs[i] = [tick |-> nupdates - 1, n |-> i]

\* A system of the second update is about to run; it sees an event raised
\* during the first update while another event is already pending.
C1_Witness ==
    /\ pc = "systems"
    /\ nupdates = 2
    /\ sys_idx <= Len(systems_)
    /\ Len(get_events_range("DamageEvent")) >= 1
    /\ PendingLen("DamageEvent") >= 1

\* C2: has_event<T>() is unchanged by raising an event of type T, and when
\* update() returns it is true exactly when events of type T were raised
\* before that update started: false while events are only pending, true
\* after the update that publishes them, false again after a further update
\* with no event of type T raised before it.
C2_HasEventFollowsRaises ==
    [][/\ \A T \in EventIDs : add_event(T) => (has_event(T)' <=> has_event(T))
       /\ UpdateEnd => \A T \in EventIDs : has_event(T)' <=> prev_raised_[T] > 0
      ]_vars

PulsesOf(entity, cid, t) ==
    {i \in 1..Len(pulse_log_) :
        /\ pulse_log_[i].entity = entity
        /\ pulse_log_[i].cid = cid
        /\ pulse_log_[i].tick = t}

FirstOf(is) == CHOOSE i \in is : \A j \in is : i <= j

\* C4: a pulse queued for a live entity that lacks the component leaves
\* has_component false until the next update; when that update returns the
\* entity (if still alive) has the component, with the value queued; and a
\* component is there on return of an update only if a pulse of the tick
\* before put it there, so it is gone when one more update returns.
C4_PulsePresentAfterUpdate ==
    [][/\ \A e \in DOMAIN entity_components_ :
             (add_entity_event(e, "GetHitEvent", HitValue)
                  /\ ~has_component(e, "GetHitEvent"))
                 => ~has_component(e, "GetHitEvent")'
       /\ UpdateEnd =>
             \A e \in DOMAIN entity_components_ :
                 LET ps == {i \in PulsesOf(e, "GetHitEvent", nupdates - 1) :
                               pulse_log_[i].lacked}
                 IN  /\ ps # {} =>
                            /\ has_component(e, "GetHitEvent")'
                            /\ get_component(e, "GetHitEvent")'
                                   = pulse_log_[FirstOf(ps)].component
                     /\ has_component(e, "GetHitEvent")' => ps # {}
      ]_vars

C6_PulseOfDestroyedEntityDropped ==
    [][(UpdateBegin \/ UpdateEnd) =>
          \A e \in {pulse_log_[i].entity : i \in 1..Len(pulse_log_)} :
              ~has_entity(e) =>
                  /\ ~has_entity(e)'
                  /\ count_entities' = count_entities
                  /\ \A cid \in DOMAIN cid2containers_' :
                         ~ContainerHas(cid2containers_'[cid], e)
      ]_vars

\* An update is running that found the pulse of a destroyed entity in its
\* queue: the attach was skipped and the pair waits for the detach.
C6_Witness ==
    /\ pc = "systems"
    /\ \E i \in 1..Len(pulse_log_) :
           /\ pulse_log_[i].tick = nupdates - 1
           /\ ~has_entity(pulse_log_[i].entity)
           /\ \E j \in 1..Len(current_entity_events_) :
                  current_entity_events_[j] = <<pulse_log_[i].entity, "GetHitEvent">>
           /\ \A cid \in DOMAIN cid2containers_ :
                  ~ContainerHas(cid2containers_[cid], pulse_log_[i].entity)


\* -------------------------------------------------------------- systems
\* A sequence without its repeated elements, first occurrences kept.
RECURSIVE Dedup(_)
Dedup(seq) ==
    IF seq = << >> THEN << >>
    ELSE LET init == Dedup(PopBack(seq))
         IN  IF Occurs(init, Back(seq)) THEN init ELSE Append(init, Back(seq))

IsActive(s) == s \in DOMAIN system_infos_map_ /\ system_infos_map_[s].active

\* C7: when the loop of update() over the systems has ended, the systems it
\* invoked are the registered systems whose flag is Active, each once, in
\* the order of their registration.
C7_ActiveSystemsOnceInOrder ==
    (pc = "systems" /\ sys_idx > Len(systems_)) =>
        invoked_ = SelectSeq(Dedup(systems_), IsActive)

\* C8: between updates the hit points of every entity are its initial hit
\* points plus one for each update() that started while RecoverHPSystem was
\* registered and Active: no heal while paused or after removal, one heal
\* per update otherwise.
C8_OneHealPerActiveUpdate ==
    pc = "idle" =>
        \A e \in DOMAIN expected_hp_ :
            has_component(e, "HPComponent") =>
                get_component(e, "HPComponent") = expected_hp_[e]

\* C9: add_system<S>() for a system that is registered changes neither the
\* map of records nor the execution list.
C9_DuplicateRegistrationNoOp ==
    [][\A s \in SystemIDs :
          (add_system(s) /\ s \in DOMAIN system_infos_map_ /\ Occurs(systems_, s))
              => UNCHANGED <<systems_, system_infos_map_>>
      ]_vars

\* C10: add_system<S>() for a system that is not in the execution list
\* (never registered, or removed by del_system, clear_systems or clear)
\* leaves S registered and Active, whatever its flag was before the removal.
C10_RegistrationIsActive ==
    [][\A s \in SystemIDs :
          (add_system(s) /\ ~Occurs(systems_, s))
              => (Occurs(systems_', s) /\ system_infos_map_'[s].active)
      ]_vars


\* ------------------------------------------------------------- entities
\* C11: add_entity returns a handle that no earlier add_entity or copy_entity
\* returned since the registry was empty, raises count_entities() by one and
\* makes has_entity true for the handle; remove_entity of a live entity
\* lowers count_entities() by one, makes has_entity false for it and keeps
\* has_entity of every other handle; so count_entities() is the number of
\* entities created and not destroyed, and has_entity is true for each.
C11_CreateAndDestroyCount ==
    [][/\ \A comps \in Packs :
             add_entity(comps) =>
                 \A new_entity \in {generate.entity} :
                     /\ new_entity \notin Issued
                     /\ count_entities' = count_entities + 1
                     /\ has_entity(new_entity)'
       /\ \A e \in Issued :
             (remove_entity(e) /\ has_entity(e)) =>
                 /\ count_entities' = count_entities - 1
                 /\ ~has_entity(e)'
                 /\ \A o \in Issued \ {e} : has_entity(o)' <=> has_entity(o)
       /\ count_entities' = Cardinality(created_')
       /\ \A e \in created_' : has_entity(e)'
      ]_vars

\* Two entities were created and the first one destroyed.
C11_Witness ==
    /\ issued_ = <<FirstEntity, FirstEntity + 1>>
    /\ created_ = {FirstEntity + 1}
    /\ count_entities = 1
    /\ ~has_entity(FirstEntity)
    /\ has_entity(FirstEntity + 1)

\* C12: between two resets the handle returned by add_entity() and by a
\* copy_entity that succeeds is none of the handles returned or chosen
\* since the last reset, destroyed ones included, and is not NullEntity.
C12_HandlesNeverReused ==
    [][\A new_entity \in {generate.entity} :
          (\/ \E comps \in Packs : add_entity(comps)
           \/ \E e \in Issued : has_entity(e) /\ copy_entity(e))
              => /\ new_entity \notin Issued
                 /\ new_entity # NullEntity
      ]_vars

\* ----------------------------------------------------------- components
\* Every component other than (entity, cid), of any entity, is there after
\* the step iff it was there before, with the value it had.
OthersUnchanged(entity, cid) ==
    \A o \in DOMAIN entity_components_ \cup DOMAIN entity_components_' :
        \A c \in ComponentIDs :
            <<o, c>> # <<entity, cid>> =>
                /\ has_component(o, c)' <=> has_component(o, c)
                /\ has_component(o, c) => get_component(o, c)' = get_component(o, c)

\* C13: add_component(e, v) on a live entity e that lacks the type makes
\* has_component true and get_component equal to v; remove_component on an
\* entity that has the type makes has_component false; either way every
\* other component of e and of every other entity stays as it was.
C13_AddThenGetThenRemove ==
    [][\A e \in DOMAIN entity_components_ :
          \A cid \in {"NameComponent", "HPComponent"} :
              /\ \A v \in Values :
                     (AddComponent(e, cid, v) /\ ~has_component(e, cid)) =>
                         /\ has_component(e, cid)'
                         /\ get_component(e, cid)' = v
                         /\ OthersUnchanged(e, cid)
              /\ (RemoveComponent(e, cid) /\ has_component(e, cid)) =>
                     /\ ~has_component(e, cid)'
                     /\ OthersUnchanged(e, cid)
      ]_vars

\* An entity created with hit points 10 and no name has had them removed
\* and hit points 20 added, next to an entity that holds a name and its
\* hit points of 10.
C13_Witness ==
    \E e, o \in DOMAIN entity_components_ :
        /\ e # o
        /\ entity_components_[e] = {"HPComponent"}
        /\ get_component(e, "HPComponent") = 20
        /\ entity_components_[o] = {"NameComponent", "HPComponent"}
        /\ get_component(o, "HPComponent") = 10

\* The number of slots of the container of cid, 0 if there is none.
StoreSize(cc, cid) == IF cid \in DOMAIN cc THEN ContainerSize(cc[cid]) ELSE 0

\* C14: add_component(e, v2) on an entity that has a component of the type
\* changes nothing, the first value stays: get_component returns what it
\* returned, the container keeps its size and the entity its set of types;
\* add_entity with two payloads of one type attaches the first of them and
\* takes one slot.
C14_FirstWriteWins ==
    [][/\ \A e \in DOMAIN entity_components_ :
             \A cid \in {"NameComponent", "HPComponent"} : \A v \in Values :
                 (AddComponent(e, cid, v) /\ has_component(e, cid)) =>
                     /\ get_component(e, cid)' = get_component(e, cid)
                     /\ StoreSize(cid2containers_', cid) = StoreSize(cid2containers_, cid)
                     /\ entity_components_' = entity_components_
                     /\ cid2containers_' = cid2containers_
       /\ \A comps \in Packs :
             (add_entity(comps) /\ comps[1][1] = comps[2][1]) =>
                 \A new_entity \in {generate.entity} :
                     /\ entity_components_'[new_entity] = {comps[1][1]}
                     /\ get_component(new_entity, comps[1][1])' = comps[1][2]
                     /\ StoreSize(cid2containers_', comps[1][1])
                            = StoreSize(cid2containers_, comps[1][1]) + 1
      ]_vars

\* The only entity created so far was given hit points 10 and hit points
\* 20 (no other container exists, so it was not created from the other
\* pack): it holds 10 in the only slot of the container.
C14_Witness ==
    /\ Len(issued_) = 1
    /\ DOMAIN cid2containers_ = {"HPComponent"}
    /\ \E e \in DOMAIN entity_components_ :
           /\ entity_components_[e] = {"HPComponent"}
           /\ get_component(e, "HPComponent") = 10
           /\ StoreSize(cid2containers_, "HPComponent") = 1

\* C15: when the component of type cid of entity e goes, by remove_component
\* or by remove_entity, every other entity holding the type keeps the value
\* get_component returns for it, the container shrinks by one, and the
\* entity of the last slot, if it is not e, moves with its value to the
\* slot e had while every other entity keeps its slot.
C15_SwapRemoveKeepsValues ==
    [][\A e \in DOMAIN entity_components_ :
          \A cid \in {"NameComponent", "HPComponent"} :
              ((RemoveComponent(e, cid) \/ remove_entity(e)) /\ has_component(e, cid)) =>
                  LET c    == cid2containers_[cid]
                      idx  == c.entities_.sparse_[e]
                      last == Back(c.entities_.dense_)
                      moved == Back(c.components_)
                  IN  /\ \A o \in DOMAIN entity_components_ \ {e} :
                             has_component(o, cid) =>
                                 /\ has_component(o, cid)'
                                 /\ get_component(o, cid)' = get_component(o, cid)
                      /\ StoreSize(cid2containers_', cid) = ContainerSize(c) - 1
                      /\ last # e =>
                             /\ cid2containers_'[cid].entities_.sparse_[last] = idx
                             /\ cid2containers_'[cid].entities_.dense_[idx + 1] = last
                             /\ cid2containers_'[cid].components_[idx + 1] = moved
                      /\ \A o \in DOMAIN c.entities_.sparse_ \ {e, last} :
                             cid2containers_'[cid].entities_.sparse_[o]
                                 = c.entities_.sparse_[o]
      ]_vars

\* Two entities hold a name, in the order of their creation; the hit points
\* of the first are gone and the second, once in the last slot of the
\* container of hit points, is in the first slot with a value of its own.
C15_Witness ==
    /\ issued_ = <<FirstEntity, FirstEntity + 1>>
    /\ {"NameComponent", "HPComponent"} \subseteq DOMAIN cid2containers_
    /\ has_component(FirstEntity + 1, "HPComponent")
    /\ cid2containers_["NameComponent"].entities_.dense_ = <<FirstEntity, FirstEntity + 1>>
    /\ ~has_component(FirstEntity, "HPComponent")
    /\ cid2containers_["HPComponent"].entities_.dense_ = <<FirstEntity + 1>>
    /\ cid2containers_["HPComponent"].entities_.sparse_[FirstEntity + 1] = 0
    /\ get_component(FirstEntity + 1, "HPComponent") = 20

\* The entities that have a slot in some container.
SlotHolders ==
    UNION {DOMAIN cid2containers_[cid].entities_.sparse_ : cid \in DOMAIN cid2containers_}

\* C16: in every state the registry has a record for exactly the entities
\* created and not destroyed since; a type is in the set of an entity iff
\* the entity has a slot in the container of the type; and the size of
\* every container is the number of entities whose set holds its type.
C16_RegistryMatchesStores ==
    /\ DOMAIN entity_components_ = created_
    /\ \A e \in DOMAIN entity_components_ \cup SlotHolders :
           \A cid \in ComponentIDs :
               has_component(e, cid) <=>
                   (cid \in DOMAIN cid2containers_
                        /\ ContainerHas(cid2containers_[cid], e))
    /\ \A cid \in DOMAIN cid2containers_ :
           ContainerSize(cid2containers_[cid])
               = Cardinality({e \in DOMAIN entity_components_ :
                                 cid \in entity_components_[e]})

\* The types and the values of every entity other than entity are after
\* the step what they were before.
EntitiesUnchanged(entity) ==
    \A o \in DOMAIN entity_components_ \ {entity} :
        /\ o \in DOMAIN entity_components_'
        /\ entity_components_'[o] = entity_components_[o]
        /\ \A c \in entity_components_[o] :
               get_component(o, c)' = get_component(o, c)

C18_QueryYieldsHolders ==
    \A Ts \in SUBSET QueryTypes :
        LET holders == {e \in DOMAIN entity_components_ :
                           \A T \in Ts : has_component(e, T)}
        IN  /\ get_entities(World, excluded_component_ids_, Ts) = holders
            /\ get_entity(World, excluded_component_ids_, Ts)
                   \subseteq (IF holders = {} THEN {NullEntity} ELSE holders)

\* C18, amended: with at least one type asked for, get_entities<Ts...>()
\* is the set of the live entities that have every type of Ts and have no
\* type given to exclude_components() other than those asked for; with no
\* type asked for it is the set of all live entities; get_entity<Ts...>()
\* returns an element of that set, or NullEntity when the set is empty.
C18_QueryYieldsHoldersNotExcluded ==
    \A Ts \in SUBSET QueryTypes :
        LET holders == {e \in DOMAIN entity_components_ :
                           /\ \A T \in Ts : has_component(e, T)
                           /\ Ts # {} =>
                                  \A X \in excluded_component_ids_ \ Ts :
                                      ~has_component(e, X)}
        IN  /\ get_entities(World, excluded_component_ids_, Ts) = holders
            /\ get_entity(World, excluded_component_ids_, Ts)
                   \subseteq (IF holders = {} THEN {NullEntity} ELSE holders)

\* NameComponent is excluded; of two live entities with hit points the one
\* that has a name is left out of the query for hit points, is found by
\* the query for name and hit points and by the query for no type.
C18_Witness ==
    /\ excluded_component_ids_ = {"NameComponent"}
    /\ \E e, o \in DOMAIN entity_components_ :
           /\ entity_components_[e] = {"NameComponent", "HPComponent"}
           /\ entity_components_[o] = {"HPComponent"}
           /\ get_entities(World, excluded_component_ids_, {"HPComponent"}) = {o}
           /\ get_entities(World, excluded_component_ids_,
                           {"NameComponent", "HPComponent"}) = {e}
           /\ get_entities(World, excluded_component_ids_, {}) = {e, o}

\* ------------------------------------------------------------ resources
\* C19: add_resource(v) for a type without value makes has_resource true
\* and get_resource equal to v; add_resource for a type with a value
\* changes nothing; remove_resource makes has_resource false (and a later
\* add_resource is then one for a type without value); no step touches the
\* resource of another type or the entities.
C19_OneResourcePerType ==
    [][\A R \in ResourceIDs :
          /\ \A v \in ResourceValues :
                 add_resource(R, v) =>
                     /\ has_resource(R)'
                     /\ get_resource(R)' = (IF has_resource(R) THEN get_resource(R) ELSE v)
                     /\ \A O \in ResourceIDs \ {R} :
                            /\ has_resource(O)' <=> has_resource(O)
                            /\ has_resource(O) => get_resource(O)' = get_resource(O)
          /\ remove_resource(R) =>
                 /\ ~has_resource(R)'
                 /\ \A O \in ResourceIDs \ {R} :
                        /\ has_resource(O)' <=> has_resource(O)
                        /\ has_resource(O) => get_resource(O)' = get_resource(O)
      ]_vars

\* Both types hold a value, not the same one, while an entity is alive.
C19_Witness ==
    /\ has_resource("GameResource")
    /\ get_resource("GameResource") = 8
    /\ has_resource("OtherResource")
    /\ get_resource("OtherResource") = 4
    /\ count_entities > 0

\* ------------------------------------------------------- absent targets
\* The state of the ECS object.
ecsVars == <<entityVars, systemVars, eventVars, pulseVars,
            excluded_component_ids_, resources_>>

\* C20: the state of the ECS is unchanged by remove_entity of an entity
\* that is not alive, by remove_component of a type the entity does not
\* have (an entity that is not alive has none), by pause_system and
\* resume_system of a system that is not registered, by pause_system of a
\* paused system and by del_system of a system that is not registered.
C20_AbsentTargetNoOp ==
    [][/\ \A e \in Issued \cup {next_entity_} :
             /\ (remove_entity(e) /\ ~has_entity(e)) => UNCHANGED ecsVars
             /\ \A cid \in QueryTypes :
                    (RemoveComponent(e, cid) /\ ~has_component(e, cid))
                        => UNCHANGED ecsVars
       /\ \A s \in AbsentSystems :
             /\ ((pause_system(s) \/ resume_system(s)) /\ ~Occurs(systems_, s))
                    => UNCHANGED ecsVars
             /\ (pause_system(s) /\ Occurs(systems_, s) /\ ~IsActive(s))
                    => UNCHANGED ecsVars
             /\ (del_system(s) /\ ~Occurs(systems_, s)) => UNCHANGED ecsVars
      ]_vars

\* C21: in every state of a component store reached by add, remove and
\* copy, add for an entity already present included, the index and the
\* packed arrays form a bijection: the value array is as long as the dense
\* array, every present entity maps to a slot below size() that holds the
\* entity and its value, two present entities map to two slots, and every
\* slot is the slot of the entity it holds.
C21_StoreBijection ==
    LET dense_  == store_.entities_.dense_
        sparse_ == store_.entities_.sparse_
    IN  /\ Len(store_.components_) = Len(dense_)
        /\ DOMAIN sparse_ = DOMAIN stored_
        /\ \A e \in DOMAIN sparse_ :
               /\ sparse_[e] < ContainerSize(store_)
               /\ dense_[sparse_[e] + 1] = e
               /\ ContainerGet(store_, e) = stored_[e]
        /\ \A e, d \in DOMAIN sparse_ : e # d => sparse_[e] # sparse_[d]
        /\ \A i \in 1..Len(dense_) :
               /\ dense_[i] \in DOMAIN sparse_
               /\ sparse_[dense_[i]] = i - 1

\* C22: a pulse attach queued before clear() or clear_entities() is not
\* realized by a later update(): the attach phase gives the pulse component
\* to no entity on behalf of an attach queued before the reset (the entity
\* may be a new one that was issued the same handle), and every component
\* the attach phase adds has its detach scheduled for the end of the update.
C22_NoPulseAcrossReset ==
    [][UpdateBegin =>
          /\ \A i \in 1..before_reset_ :
                 \A f \in {delayed_functions_[i]} :
                     (/\ ~has_component(f.entity, f.cid)
                      /\ \A j \in (before_reset_ + 1)..Len(delayed_functions_) :
                             <<delayed_functions_[j].entity,
                               delayed_functions_[j].cid>> # <<f.entity, f.cid>>)
                         => ~has_component(f.entity, f.cid)'
          /\ \A e \in DOMAIN entity_components_ : \A cid \in ComponentIDs :
                 (~has_component(e, cid) /\ has_component(e, cid)')
                     => Occurs(current_entity_events_', <<e, cid>>)
      ]_vars

\* C23: the detach of a pulse removes only what the attach added: an entity
\* that holds, when update() reaches its detaches, a component added with
\* add_component (so that the attach of a pulse of the same type queued for
\* it in the tick before was a no-op) holds the same component with the same
\* value when that update returns.
C23_DetachKeepsOwnComponent ==
    [][UpdateEnd =>
          \A e \in DOMAIN entity_components_ :
              (/\ PulsesOf(e, "GetHitEvent", nupdates - 1) # {}
               /\ has_component(e, "GetHitEvent")
               /\ get_component(e, "GetHitEvent") = OwnValue)
                  => /\ has_component(e, "GetHitEvent")'
                     /\ get_component(e, "GetHitEvent")' = OwnValue
      ]_vars

\* C24: add_component on a handle that is not alive, never created or
\* already destroyed, does not bring it to life: has_entity stays false,
\* count_entities() keeps its value and no container holds a slot for it.
C24_AddComponentNeedsLiveEntity ==
    [][\A e \in Issued \cup {next_entity_} :
          (AddComponent(e, "HPComponent", 20) /\ ~has_entity(e))
              => /\ ~has_entity(e)'
                 /\ count_entities' = count_entities
                 /\ \A cid \in DOMAIN cid2containers_' :
                        ~ContainerHas(cid2containers_'[cid], e)
      ]_vars

\* C25: reading events is a pure observation: a call of get_events<T>(),
\* with or without a visible event of type T, leaves has_event<U>() as it was
\* for every type U, and leaves the events of the current buffer and the
\* next buffer as they were.
C25_GetEventsIsPure ==
    [][\A T \in EventIDs :
          get_events(T) =>
              /\ \A U \in EventIDs :
                     /\ has_event(U)' <=> has_event(U)
                     /\ get_events_range(U)' = get_events_range(U)
              /\ UNCHANGED next_events_map_
      ]_vars

====
